---- MODULE Spec2Model ----
(***************************************************************************)
(* The three example notebooks of earthengine-layers (py/examples):        *)
(* Introduction.ipynb and the points and polygon notebooks held in         *)
(* power_plants.ipynb, run top to bottom, one statement at a time, the run *)
(* stopping at the first statement that raises.                            *)
(*                                                                         *)
(* Calls into the two external libraries (ee, pydeck) either return or     *)
(* raise; which one is not decided by the notebooks, so it is a            *)
(* nondeterministic choice.  Earth Engine objects are what the client      *)
(* library builds: symbolic expression trees, modelled as records with an  *)
(* op field.  Numeric literals are kept as the text the notebook writes.   *)
(***************************************************************************)
EXTENDS Integers, Sequences, FiniteSets, TLC

VARIABLES
    nb,       \* the notebook being run: "intro", "points" or "polygon"
    pc,       \* index in Program(nb) of the next statement
    outcome,  \* "running", "done" or "error"
    err,      \* the kind of the exception that ended the run, "" when none
    iter,     \* position of the iterator of the for loop being run
    log,      \* the library calls made so far, in order, with their results
    g,        \* the notebook's global namespace
    shown     \* the Deck objects displayed by r.show(), in order

vars == <<nb, pc, outcome, err, iter, log, g, shown>>

Notebooks == {"intro", "points", "polygon"}

----------------------------------------------------------------------------
(* Earth Engine expression trees *)

Lit(v) == [op |-> "const", v |-> v]

Un(o, a) == [op |-> o, a |-> a]

Bin(o, a, b) == [op |-> o, a |-> a, b |-> b]

Image(x) == Un("Image", Lit(x))

FeatureCollection(x) == Un("FeatureCollection", x)

----------------------------------------------------------------------------
(* Introduction.ipynb, hillshade cell *)

Radians(img) ==
    Bin("divide", Bin("multiply", Un("toFloat", img), Lit("math.pi")), Lit("180"))

HillshadeZenithDegrees(az, ze, slope, aspect) ==
    LET azimuth == Radians(Image(az))
        zenith == Image(ze)
    IN  Bin("add",
            Bin("multiply",
                Bin("multiply", Un("cos", Bin("subtract", azimuth, aspect)),
                                Un("sin", slope)),
                Un("sin", zenith)),
            Bin("multiply", Un("cos", zenith), Un("cos", slope)))

Hillshade(az, ze, slope, aspect) ==
    LET azimuth == Radians(Image(az))
        zenith == Radians(Image(ze))
    IN  Bin("add",
            Bin("multiply",
                Bin("multiply", Un("cos", Bin("subtract", azimuth, aspect)),
                                Un("sin", slope)),
                Un("sin", zenith)),
            Bin("multiply", Un("cos", zenith), Un("cos", slope)))

----------------------------------------------------------------------------
(* power_plants.ipynb, points notebook: palettes, fuels, add_style *)

HexPalette ==
    [Coal |-> "000000", Oil |-> "593704", Gas |-> "BC80BD", Hydro |-> "0565A6",
     Nuclear |-> "E31A1C", Solar |-> "FF7F00", Waste |-> "6A3D9A",
     Wind |-> "5CA2D1", Geothermal |-> "FDBF6F", Biomass |-> "229A00"]

RgbPaletteNoWind ==
    [Coal |-> <<0, 0, 0>>, Oil |-> <<89, 55, 4>>, Gas |-> <<188, 128, 189>>,
     Hydro |-> <<5, 101, 166>>, Nuclear |-> <<227, 26, 28>>,
     Solar |-> <<255, 127, 0>>, Waste |-> <<106, 61, 154>>,
     Geothermal |-> <<253, 191, 111>>, Biomass |-> <<34, 154, 0>>]

RgbPalette ==
    [Coal |-> <<0, 0, 0>>, Oil |-> <<89, 55, 4>>, Gas |-> <<188, 128, 189>>,
     Hydro |-> <<5, 101, 166>>, Nuclear |-> <<227, 26, 28>>,
     Solar |-> <<255, 127, 0>>, Waste |-> <<106, 61, 154>>,
     Wind |-> <<92, 162, 209>>, Geothermal |-> <<253, 191, 111>>,
     Biomass |-> <<34, 154, 0>>]

FuelsList ==
    <<"Coal", "Oil", "Gas", "Hydro", "Nuclear", "Solar", "Waste",
      "Wind", "Geothermal", "Biomass">>

\* the placeholder feature FeatureCollection.map hands to the mapped function
MappedFeature == [op |-> "var"]

add_style_other_name(point) ==
    LET size == Bin("add",
                    Bin("divide",
                        Un("sqrt", Un("Number", Bin("get", point, Lit("capacitymw")))),
                        Lit("10")),
                    Lit("2"))
        color == Bin("get", g.fuel_color, Bin("get", point, Lit("fuel1")))
    IN  [op |-> "set", a |-> point, key |-> "style",
         value |-> [op |-> "Dictionary", d |-> [pointSize |-> size, color |-> color]]]

add_style(point) ==
    LET size == Bin("add",
                    Bin("divide",
                        Un("sqrt", Un("Number", Bin("get", point, Lit("capacitymw")))),
                        Lit("10")),
                    Lit("2"))
        color == Bin("get", g.fuel_color, Bin("get", point, Lit("fuel1")))
    IN  [op |-> "set", a |-> point, key |-> "styleProperty",
         value |-> [op |-> "Dictionary", d |-> [pointSize |-> size, color |-> color]]]

----------------------------------------------------------------------------
(* The notebooks as statement sequences, cells in file order *)

\* (variant: the authentication cell is skipped)
IntroCellsNoAuthenticate ==
    <<"import", "initialize", "image", "ee_layer_image",
      "view_state_sf", "deck_ee_layer", "show",
      "defs", "terrain", "slope_img", "aspect_img",
      "ee_object", "ee_layer_hillshade", "view_state_gc", "deck_ee_layer", "show">>

\* (variant: the Introduction notebook uses the guarded cell of the other two)
IntroCellsGuarded ==
    <<"import", "try_initialize", "except_authenticate", "except_initialize",
      "image", "ee_layer_image", "view_state_sf", "deck_ee_layer", "show",
      "defs", "terrain", "slope_img", "aspect_img",
      "ee_object", "ee_layer_hillshade", "view_state_gc", "deck_ee_layer", "show">>

IntroCells ==
    <<"import", "authenticate", "initialize", "image", "ee_layer_image",
      "view_state_sf", "deck_ee_layer", "show",
      "defs", "terrain", "slope_img", "aspect_img",
      "ee_object", "ee_layer_hillshade", "view_state_gc", "deck_ee_layer", "show">>

\* (variant: the except block initializes twice)
PointsCellsRetryTwice ==
    <<"import", "try_initialize", "except_authenticate", "except_initialize",
      "except_initialize",
      "table", "fuel_color_hex", "fuels", "def_add_style", "pp",
      "layers_empty", "for_raster", "view_state_atlantic", "deck_layers", "show",
      "fuel_color_rgb", "layers_empty", "for_vector",
      "view_state_atlantic", "deck_layers", "show">>

PointsCells ==
    <<"import", "try_initialize", "except_authenticate", "except_initialize",
      "table", "fuel_color_hex", "fuels", "def_add_style", "pp",
      "layers_empty", "for_raster", "view_state_atlantic", "deck_layers", "show",
      "fuel_color_rgb", "layers_empty", "for_vector",
      "view_state_atlantic", "deck_layers", "show">>

\* (variant: the dataset cell stands before the authentication cell)
PolygonCellsDatasetFirst ==
    <<"import", "dataset", "try_initialize", "except_authenticate",
      "except_initialize", "countries", "layer", "view_state_med", "deck_layer",
      "show">>

PolygonCells ==
    <<"import", "try_initialize", "except_authenticate", "except_initialize",
      "dataset", "countries", "layer", "view_state_med", "deck_layer", "show">>

Program(n) ==
    CASE n = "intro" -> IntroCells
      [] n = "points" -> PointsCells
      [] n = "polygon" -> PolygonCells

\* the literal arguments of each pdk.ViewState(...) statement
ViewStateArgs ==
    [view_state_sf |->
        [latitude |-> "37.7749295", longitude |-> "-122.4194155", zoom |-> "10",
         bearing |-> "0", pitch |-> "45"],
     view_state_gc |->
        [latitude |-> "36.0756", longitude |-> "-111.9987", zoom |-> "7",
         bearing |-> "0", pitch |-> "30"],
     view_state_atlantic |-> [latitude |-> "36", longitude |-> "-53", zoom |-> "3"],
     view_state_med |-> [latitude |-> "36", longitude |-> "10", zoom |-> "3"]]

\* the statements that stand in an except block
ExceptBlock == {"except_authenticate", "except_initialize"}

----------------------------------------------------------------------------
(* Running statements *)

At(l) == outcome = "running" /\ pc <= Len(Program(nb)) /\ Program(nb)[pc] = l

\* a statement has run to its end: go on k statements further
Advance(k) ==
    /\ pc' = pc + k
    /\ outcome' = IF pc + k > Len(Program(nb)) THEN "done" ELSE "running"
    /\ err' = err

\* an exception leaves the cell: the run stops there
Raise(kind) ==
    /\ pc' = pc
    /\ outcome' = "error"
    /\ err' = kind

\* the calls of a statement that were made when call number k raised
\* (k = Len(calls) + 1: none raised)
Logged(calls, k) ==
    [i \in 1..(IF k > Len(calls) THEN Len(calls) ELSE k) |->
        [call |-> calls[i], res |-> IF i = k THEN "Exception" ELSE "ok"]]

\* a statement outside any try block: it makes `calls` in order and then binds
\* names, giving namespace newg; a call that raises ends the run
Exec(l, calls, newg) ==
    /\ At(l)
    /\ \E k \in 1..(Len(calls) + 1) :
         /\ log' = log \o Logged(calls, k)
         /\ IF k > Len(calls)
              THEN g' = newg /\ Advance(1)
              ELSE g' = g /\ Raise("Exception")
    /\ UNCHANGED <<nb, iter, shown>>

\* the number of statements of the except block that follows statement i
RECURSIVE HandlerLen(_, _)
HandlerLen(prog, i) ==
    IF i + 1 <= Len(prog) /\ prog[i + 1] \in ExceptBlock
      THEN 1 + HandlerLen(prog, i + 1)
      ELSE 0

----------------------------------------------------------------------------
(* Statements shared by the notebooks *)

\* the namespace ns after the assignment name = value
Bind(ns, name, value) ==
    [n \in DOMAIN ns \cup {name} |-> IF n = name THEN value ELSE ns[n]]

Init ==
    /\ nb \in Notebooks
    /\ pc = 1
    /\ outcome = "running"
    /\ err = ""
    /\ iter = 1
    /\ log = <<>>
    /\ g = <<>>
    /\ shown = <<>>

\* from pydeck_earthengine_layers import EarthEngineLayer; import pydeck; import ee
Import == Exec("import", <<>>, g)

\* try: ee.Initialize() / except Exception as e: -- an Exception enters the
\* handler, any other exception leaves the cell, success skips the handler
CaughtNothing(res) == FALSE

Caught(res) == res = "Exception"

TryInitialize ==
    /\ At("try_initialize")
    /\ \E res \in {"ok", "Exception", "BaseException"} :
         /\ log' = Append(log, [call |-> "ee.Initialize", res |-> res])
         /\ IF res = "ok" THEN Advance(1 + HandlerLen(Program(nb), pc))
            ELSE IF Caught(res) THEN Advance(1)
            ELSE Raise(res)
    /\ UNCHANGED <<nb, iter, g, shown>>

\* ee.Authenticate() in the except block: what it raises is not caught
ExceptAuthenticate == Exec("except_authenticate", <<"ee.Authenticate">>, g)

\* ee.Initialize() in the except block: what it raises is not caught
ExceptInitialize == Exec("except_initialize", <<"ee.Initialize">>, g)

\* view_state = pdk.ViewState(...)
ViewState ==
    \E l \in DOMAIN ViewStateArgs :
        Exec(l, <<"pdk.ViewState">>,
             Bind(g, "view_state", [op |-> "ViewState", kwargs |-> ViewStateArgs[l]]))

\* the layers argument of each r = pdk.Deck(layers=..., initial_view_state=view_state)
DeckLayers(l) ==
    CASE l = "deck_ee_layer" -> <<g.ee_layer>>
      [] l = "deck_layers" -> g.layers
      [] l = "deck_layer" -> <<g.layer>>

Deck ==
    \E l \in {"deck_ee_layer", "deck_layers", "deck_layer"} :
        Exec(l, <<"pdk.Deck">>,
             Bind(g, "r", [op |-> "Deck", layers |-> DeckLayers(l),
                              initial_view_state |-> g.view_state,
                              created |-> Len(log) + 1]))

\* r.show()
Show ==
    /\ At("show")
    /\ \E res \in {"ok", "Exception"} :
         /\ log' = Append(log, [call |-> "Deck.show", res |-> res])
         /\ IF res = "ok"
              THEN shown' = Append(shown, g.r) /\ Advance(1)
              ELSE shown' = shown /\ Raise(res)
    /\ UNCHANGED <<nb, iter, g>>

\* EarthEngineLayer(ee_object, **kwargs), built as call number `at` of the log
EarthEngineLayer(ee_object, kwargs, at) ==
    [op |-> "EarthEngineLayer", ee_object |-> ee_object, kwargs |-> kwargs,
     created |-> at]

----------------------------------------------------------------------------
(* Introduction.ipynb *)

Authenticate == Exec("authenticate", <<"ee.Authenticate">>, g)

Initialize == Exec("initialize", <<"ee.Initialize">>, g)

ImageStmt ==
    Exec("image", <<"ee.Image">>, Bind(g, "image", Image("CGIAR/SRTM90_V4")))

EeLayerImage ==
    Exec("ee_layer_image", <<"EarthEngineLayer">>,
         Bind(g, "ee_layer",
              EarthEngineLayer(g.image, [vis_params |-> [min |-> "0", max |-> "255"]],
                               Len(log) + 1)))

\* import math; def Radians; def Hillshade
Defs == Exec("defs", <<>>, g)

Terrain ==
    Exec("terrain", <<"ee.Image", "ee.Algorithms.Terrain">>,
         Bind(g, "terrain", Un("Terrain", Image("srtm90_v4"))))

SlopeImg ==
    Exec("slope_img", <<"Image.select", "Radians">>,
         Bind(g, "slope_img", Radians(Bin("select", g.terrain, Lit("slope")))))

AspectImg ==
    Exec("aspect_img", <<"Image.select", "Radians">>,
         Bind(g, "aspect_img", Radians(Bin("select", g.terrain, Lit("aspect")))))

EeObject ==
    Exec("ee_object", <<"Hillshade">>,
         Bind(g, "ee_object", Hillshade("0", "60", g.slope_img, g.aspect_img)))

EeLayerHillshade ==
    Exec("ee_layer_hillshade", <<"EarthEngineLayer">>,
         Bind(g, "ee_layer", EarthEngineLayer(g.ee_object, <<>>, Len(log) + 1)))


----------------------------------------------------------------------------
(* power_plants.ipynb, points notebook *)

Table ==
    Exec("table", <<"ee.FeatureCollection">>,
         Bind(g, "table", FeatureCollection(Lit("WRI/GPPD/power_plants"))))

FuelColorHex ==
    Exec("fuel_color_hex", <<"ee.Dictionary">>,
         Bind(g, "fuel_color", [op |-> "Dictionary", d |-> HexPalette]))

Fuels == Exec("fuels", <<>>, Bind(g, "fuels", FuelsList))

DefAddStyle == Exec("def_add_style", <<>>, g)

\* pp = ee.FeatureCollection(table).map(add_style): map calls add_style once,
\* on the placeholder feature, while the statement runs
Pp ==
    Exec("pp", <<"ee.FeatureCollection", "FeatureCollection.map">>,
         Bind(g, "pp", [op |-> "map", a |-> FeatureCollection(g.table),
                           body |-> add_style(MappedFeature)]))

LayersEmpty == Exec("layers_empty", <<>>, Bind(g, "layers", <<>>))

FilterEq(coll, name, value) ==
    Bin("filter", coll, [op |-> "Filter.eq", name |-> name, value |-> value])

\* EarthEngineLayer(pp.filter(ee.Filter.eq('fuel1', fuel)).style(...),
\*                  id=fuel, opacity=0.65)
RasterLayerUnfiltered(fuel, at) ==
    EarthEngineLayer(
        [op |-> "style", a |-> g.pp,
         kwargs |-> [styleProperty |-> "styleProperty", neighborhood |-> "50"]],
        [id |-> fuel, opacity |-> "0.65"], at)

RasterLayer(fuel, at) ==
    EarthEngineLayer(
        [op |-> "style", a |-> FilterEq(g.pp, "fuel1", fuel),
         kwargs |-> [styleProperty |-> "styleProperty", neighborhood |-> "50"]],
        [id |-> fuel, opacity |-> "0.65"], at)

\* one pass of: for fuel in fuels: layer = EarthEngineLayer(...); layers.append(layer)
RasterCalls ==
    <<"ee.Filter.eq", "FeatureCollection.filter", "FeatureCollection.style",
      "EarthEngineLayer">>

ForRaster ==
    /\ At("for_raster")
    /\ iter <= Len(g.fuels)
    /\ \E k \in 1..(Len(RasterCalls) + 1) :
         LET fuel == g.fuels[iter]
             layer == RasterLayer(fuel, Len(log) + Len(RasterCalls))
         IN  /\ log' = log \o Logged(RasterCalls, k)
             /\ IF k > Len(RasterCalls)
                  THEN /\ g' = Bind(Bind(Bind(g, "fuel", fuel), "layer", layer),
                                      "layers", Append(g.layers, layer))
                       /\ iter' = iter + 1
                       /\ UNCHANGED <<pc, outcome, err>>
                  ELSE /\ g' = Bind(g, "fuel", fuel)
                       /\ iter' = iter
                       /\ Raise("Exception")
    /\ UNCHANGED <<nb, shown>>

\* EarthEngineLayer(table.filter(ee.Filter.eq('fuel1', fuel)), vis_params={}, ...)
VectorLayer(fuel, at) ==
    EarthEngineLayer(
        FilterEq(g.table, "fuel1", fuel),
        [vis_params |-> <<>>,
         getRadius |-> ".properties.capacitymw ** 1.35",
         lineWidthMinPixels |-> "0.5",
         pointRadiusMinPixels |-> "2",
         get_fill_color |-> g.fuel_color[fuel],
         selectors |-> <<"capacitymw">>,
         as_vector |-> TRUE,
         id |-> fuel,
         opacity |-> "0.65"], at)

\* the calls of one pass: the last one is made after fuel_color[fuel] is looked up
VectorCalls == <<"ee.Filter.eq", "FeatureCollection.filter", "EarthEngineLayer">>

ForVector ==
    /\ At("for_vector")
    /\ iter <= Len(g.fuels)
    /\ LET fuel == g.fuels[iter]
           n == Len(VectorCalls)
           found == fuel \in DOMAIN g.fuel_color
       IN  \E k \in 1..(n + 1) :
             IF k >= n /\ ~found
               THEN \* the two calls of the first argument returned, the lookup fails
                    /\ log' = log \o Logged(SubSeq(VectorCalls, 1, n - 1), n)
                    /\ g' = Bind(g, "fuel", fuel)
                    /\ iter' = iter
                    /\ Raise("KeyError")
               ELSE /\ log' = log \o Logged(VectorCalls, k)
                    /\ IF k > n
                         THEN /\ g' = Bind(Bind(Bind(g, "fuel", fuel),
                                                "layer", VectorLayer(fuel, Len(log) + n)),
                                           "layers",
                                           Append(g.layers,
                                                  VectorLayer(fuel, Len(log) + n)))
                              /\ iter' = iter + 1
                              /\ UNCHANGED <<pc, outcome, err>>
                         ELSE /\ g' = Bind(g, "fuel", fuel)
                              /\ iter' = iter
                              /\ Raise("Exception")
    /\ UNCHANGED <<nb, shown>>

\* the iterator is exhausted: the for statement ends
ForExit ==
    /\ At("for_raster") \/ At("for_vector")
    /\ iter > Len(g.fuels)
    /\ iter' = 1
    /\ Advance(1)
    /\ UNCHANGED <<nb, log, g, shown>>

FuelColorRgb == Exec("fuel_color_rgb", <<>>, Bind(g, "fuel_color", RgbPalette))

----------------------------------------------------------------------------
(* power_plants.ipynb, polygon notebook *)

Dataset ==
    Exec("dataset", <<"ee.FeatureCollection">>,
         Bind(g, "dataset", FeatureCollection(Lit("USDOS/LSIB_SIMPLE/2017"))))

Countries ==
    Exec("countries", <<"FeatureCollection.style">>,
         Bind(g, "countries", [op |-> "style", a |-> g.dataset,
              kwargs |-> [fillColor |-> "b5ffb4", color |-> "00909F", width |-> "3"]]))

Layer ==
    Exec("layer", <<"EarthEngineLayer">>,
         Bind(g, "layer", EarthEngineLayer(g.countries, [id |-> "international_boundaries"],
                              Len(log) + 1)))

----------------------------------------------------------------------------

Next ==
    \/ Import
    \/ TryInitialize
    \/ ExceptAuthenticate
    \/ ExceptInitialize
    \/ ViewState
    \/ Deck
    \/ Show
    \/ Authenticate
    \/ Initialize
    \/ ImageStmt
    \/ EeLayerImage
    \/ Defs
    \/ Terrain
    \/ SlopeImg
    \/ AspectImg
    \/ EeObject
    \/ EeLayerHillshade
    \/ Table
    \/ FuelColorHex
    \/ Fuels
    \/ DefAddStyle
    \/ Pp
    \/ LayersEmpty
    \/ ForRaster
    \/ ForVector
    \/ ForExit
    \/ FuelColorRgb
    \/ Dataset
    \/ Countries
    \/ Layer

Spec == Init /\ [][Next]_vars

\* statements run one after the other, and every library call returns or
\* raises: a run that can take a step takes it
FairSpec == Spec /\ WF_vars(Next)


----------------------------------------------------------------------------
(* What the log and the namespace tell *)

IsInit(e) == e.call = "ee.Initialize"

IsAuth(e) == e.call = "ee.Authenticate"

\* the calls that build an Earth Engine object
IsEE(e) ==
    e.call \in {"ee.Image", "ee.FeatureCollection", "ee.Dictionary",
                "ee.Algorithms.Terrain", "ee.Filter.eq", "Image.select", "Radians",
                "Hillshade", "FeatureCollection.map", "FeatureCollection.filter",
                "FeatureCollection.style"}

IsLayer(e) == e.call = "EarthEngineLayer"

IsDeck(e) == e.call = "pdk.Deck"

\* the ee.Initialize and ee.Authenticate calls, in order
AuthCalls == SelectSeq(log, LAMBDA e : IsInit(e) \/ IsAuth(e))

Initializes == Len(SelectSeq(log, IsInit))

Authenticates == Len(SelectSeq(log, IsAuth))

Guarded == nb \in {"points", "polygon"}

InAuthCell ==
    /\ outcome = "running"
    /\ Program(nb)[pc] \in {"try_initialize"} \cup ExceptBlock

\* the guarded cell has been entered and left, normally or by an exception
AuthCellOver == Len(AuthCalls) >= 1 /\ ~InAuthCell

\* positions in the log of the visualization requests (Earth Engine objects
\* and EarthEngineLayers)
Requests == {i \in 1..Len(log) : IsEE(log[i]) \/ IsLayer(log[i])}

FirstRequest == CHOOSE i \in Requests : \A j \in Requests : i <= j

InitializedBefore(i) == \E j \in 1..(i - 1) : IsInit(log[j]) /\ log[j].res = "ok"

AuthenticatedBefore(i) == \E j \in 1..(i - 1) : IsAuth(log[j]) /\ log[j].res = "ok"

----------------------------------------------------------------------------
(* C1: in the guarded cell of the points and of the polygon notebook, a first
   ee.Initialize() that succeeds is followed by no ee.Authenticate() and no
   further ee.Initialize(); a first ee.Initialize() that raises an Exception
   is followed by exactly one ee.Authenticate() and, when that returns, by
   exactly one more ee.Initialize(). *)
C1_GuardedFallback ==
    (Guarded /\ Len(AuthCalls) >= 1) =>
        LET A == AuthCalls
        IN  /\ IsInit(A[1])
            /\ A[1].res = "ok" => Len(A) = 1
            /\ (A[1].res = "Exception" /\ AuthCellOver) =>
                 /\ Authenticates = 1
                 /\ IsAuth(A[2])
                 /\ IF A[2].res = "ok"
                      THEN Len(A) = 3 /\ IsInit(A[3]) /\ Initializes = 2
                      ELSE Len(A) = 2

C1_Witness ==
    /\ nb = "points"
    /\ AuthCellOver
    /\ Len(AuthCalls) = 3
    /\ AuthCalls[1].res = "Exception"
    /\ AuthCalls[3].res = "ok"
    /\ outcome = "running"

(* C2: the guarded cell calls ee.Initialize() at most twice and
   ee.Authenticate() at most once; a failure of ee.Authenticate() ends the
   cell in error with no second ee.Initialize(), a failure of the second
   ee.Initialize() ends it in error; and the cell always finishes. *)
C2_Budget ==
    Guarded =>
        LET A == AuthCalls
        IN  /\ Initializes <= 2
            /\ Authenticates <= 1
            /\ \A i \in 2..Len(A) :
                 A[i].res # "ok" =>
                    /\ outcome = "error"
                    /\ i = Len(A)
                    /\ log = A
                    /\ IsAuth(A[i]) => Initializes = 1

C2_NoRetryBudget ==
    /\ []C2_Budget
    /\ (Guarded /\ InAuthCell) ~> AuthCellOver

C2_Witness ==
    /\ nb = "polygon"
    /\ Len(AuthCalls) = 2
    /\ IsAuth(AuthCalls[2])
    /\ AuthCalls[2].res = "Exception"
    /\ outcome = "error"

(* C3, as claimed: in every notebook, the Introduction notebook included, every
   ee.Initialize() call that fails is followed by ee.Authenticate() and, when
   that returns, by one more ee.Initialize(). *)
C3_EveryInitializeFallsBack ==
    outcome # "running" =>
        \A i \in 1..Len(log) :
            (IsInit(log[i]) /\ log[i].res = "Exception") =>
                /\ i + 1 <= Len(log)
                /\ IsAuth(log[i + 1])
                /\ log[i + 1].res = "ok" => (i + 2 <= Len(log) /\ IsInit(log[i + 2]))

(* C3, amended: only the first ee.Initialize() of the guarded cell of the
   points and polygon notebooks falls back: when it raises an Exception,
   ee.Authenticate() is the next call and, when that returns, ee.Initialize()
   the one after it.  Every other failing ee.Initialize() -- the Introduction
   notebook's, the retry in the except block, a first call raising something
   that is no Exception -- is the last call of the run, which ends in error. *)
C3_OnlyGuardedFirstFallsBack ==
    \A i \in 1..Len(log) :
        (IsInit(log[i]) /\ log[i].res # "ok") =>
            IF Guarded /\ log[i].res = "Exception" /\ ~\E j \in 1..(i - 1) : IsInit(log[j])
              THEN /\ outcome # "running" => i + 1 <= Len(log)
                   /\ i + 1 <= Len(log) => IsAuth(log[i + 1])
                   /\ (i + 1 <= Len(log) /\ log[i + 1].res = "ok" /\ outcome # "running")
                         => (i + 2 <= Len(log) /\ IsInit(log[i + 2]))
              ELSE i = Len(log) /\ outcome = "error"

C3_Witness ==
    /\ nb = "intro"
    /\ outcome = "error"
    /\ Len(log) = 2
    /\ IsAuth(log[1]) /\ log[1].res = "ok"
    /\ IsInit(log[2]) /\ log[2].res = "Exception"

(* C4, as claimed: in every run of each notebook that reaches a Deck display,
   ee.Authenticate() has been performed before the first visualization
   request is constructed. *)
C4_AuthenticateBeforeFirstRequest ==
    shown # <<>> => AuthenticatedBefore(FirstRequest)

(* C4, amended: in every run that reaches a Deck display, ee.Initialize() has
   succeeded before the first visualization request; ee.Authenticate() has
   been performed before it in every such run of the Introduction notebook,
   and in such a run of the points or polygon notebook exactly when the first
   ee.Initialize() raised an Exception. *)
C4_InitializeBeforeFirstRequest ==
    shown # <<>> =>
        /\ InitializedBefore(FirstRequest)
        /\ nb = "intro" => AuthenticatedBefore(FirstRequest)
        /\ Guarded =>
             (AuthenticatedBefore(FirstRequest) <=> AuthCalls[1].res = "Exception")

C4_Witness ==
    /\ nb = "points"
    /\ shown # <<>>
    /\ Authenticates = 0

(* C5: under top-to-bottom execution stopping at the first error, no Earth
   Engine object, EarthEngineLayer or pydeck.Deck is constructed unless an
   ee.Initialize() has succeeded earlier in the run; every layer handed to a
   Deck was constructed before that Deck; r.show() is called only on a Deck
   that was given its layers and its initial view state. *)
Bound(name) == name \in DOMAIN g

Decks == {shown[k] : k \in 1..Len(shown)} \cup (IF Bound("r") THEN {g.r} ELSE {})

ShowCalls == {i \in 1..Len(log) : log[i].call = "Deck.show" /\ log[i].res = "ok"}

C5_InitializeBuildPassShow ==
    /\ \A i \in 1..Len(log) :
         (IsEE(log[i]) \/ IsLayer(log[i]) \/ IsDeck(log[i])) => InitializedBefore(i)
    /\ \A d \in Decks :
         /\ IsDeck(log[d.created]) /\ log[d.created].res = "ok"
         /\ \A k \in 1..Len(d.layers) :
              /\ d.layers[k].op = "EarthEngineLayer"
              /\ d.layers[k].created < d.created
              /\ IsLayer(log[d.layers[k].created])
              /\ log[d.layers[k].created].res = "ok"
    /\ Cardinality(ShowCalls) = Len(shown)
    /\ \A k \in 1..Len(shown) :
         /\ shown[k].op = "Deck"
         /\ Len(shown[k].layers) >= 1
         /\ shown[k].initial_view_state.op = "ViewState"
         /\ Cardinality({i \in ShowCalls : i > shown[k].created}) >= Len(shown) - k + 1

C5_Witness ==
    /\ nb = "intro"
    /\ Len(shown) = 2
    /\ shown[2].layers[1].ee_object.op = "add"

(* C6: when each of the two layer-building loops of the points notebook has
   finished, layers holds exactly one EarthEngineLayer per element of fuels,
   in the order of fuels; the layer for fuel f has id f and is built from the
   collection filtered by fuel1 == f; the ids are pairwise distinct; and the
   Deck constructed next receives exactly that list. *)
FilteredBy(e, f) ==
    LET c == IF e.op = "style" THEN e.a ELSE e
    IN  c.op = "filter" /\ c.b = [op |-> "Filter.eq", name |-> "fuel1", value |-> f]

OneLayerPerFuel(ls) ==
    /\ Len(ls) = Len(g.fuels)
    /\ \A i \in 1..Len(ls) :
         /\ ls[i].op = "EarthEngineLayer"
         /\ ls[i].kwargs.id = g.fuels[i]
         /\ FilteredBy(ls[i].ee_object, g.fuels[i])
    /\ \A i, j \in 1..Len(ls) : i # j => ls[i].kwargs.id # ls[j].kwargs.id

C6_OneLayerPerFuel ==
    nb = "points" =>
        /\ (At("view_state_atlantic") \/ At("deck_layers")) => OneLayerPerFuel(g.layers)
        /\ (At("show") /\ log[Len(log)].call = "pdk.Deck") =>
              (g.r.layers = g.layers /\ OneLayerPerFuel(g.r.layers))
        /\ \A k \in 1..Len(shown) : OneLayerPerFuel(shown[k].layers)

C6_Witness ==
    /\ nb = "points"
    /\ Len(shown) = 2
    /\ shown[1].layers # shown[2].layers

(* C7: for every fuel f of fuels the lookup fuel_color[f] of the vector loop
   succeeds (every element of fuels is a key of the RGB palette, and of the
   hex palette add_style uses); the vector layer with id f receives as
   get_fill_color the RGB triple mapped to f; every other parameter of the
   layer is the same literal for all fuels. *)
IsVector(l) == "as_vector" \in DOMAIN l.kwargs

AllLayers ==
    UNION {{d.layers[k] : k \in 1..Len(d.layers)} : d \in Decks}
      \cup (IF Bound("layers") THEN {g.layers[k] : k \in 1..Len(g.layers)} ELSE {})

PaletteKeys ==
    IF "op" \in DOMAIN g.fuel_color
      THEN DOMAIN g.fuel_color.d
      ELSE DOMAIN g.fuel_color

OtherParams(l) ==
    [k \in DOMAIN l.kwargs \ {"id", "get_fill_color"} |-> l.kwargs[k]]

C7_ColorsForwarded ==
    nb = "points" =>
        /\ err # "KeyError"
        /\ (Bound("fuels") /\ Bound("fuel_color")) =>
              \A i \in 1..Len(g.fuels) : g.fuels[i] \in PaletteKeys
        /\ \A l \in AllLayers :
              IsVector(l) =>
                 /\ l.kwargs.get_fill_color = g.fuel_color[l.kwargs.id]
                 /\ DOMAIN l.kwargs =
                       {"vis_params", "getRadius", "lineWidthMinPixels",
                        "pointRadiusMinPixels", "get_fill_color", "selectors",
                        "as_vector", "id", "opacity"}
                 /\ \A m \in AllLayers : IsVector(m) => OtherParams(m) = OtherParams(l)

C7_Witness ==
    /\ nb = "points"
    /\ At("for_vector")
    /\ iter > Len(g.fuels)
    /\ \A i \in 1..Len(g.fuels) :
          g.layers[i].kwargs.get_fill_color = g.fuel_color[g.fuels[i]]

(* C8: Hillshade(az, ze, slope, aspect) builds exactly
   cos(Azimuth - Aspect) * sin(Slope) * sin(Zenith) + cos(Zenith) * cos(Slope),
   Azimuth and Zenith being az and ze converted by Radians and Slope and
   Aspect the arguments as given; in the notebook's call each of the four
   angles has passed through Radians (multiply by pi, divide by 180) exactly
   once before it reaches a trigonometric function. *)
IsRadians(e) ==
    /\ e.op = "divide" /\ e.b = Lit("180")
    /\ e.a.op = "multiply" /\ e.a.b = Lit("math.pi")

Arith == {"add", "subtract", "multiply", "divide"}

\* the sources below e, each with the number of conversions on the way to it
RECURSIVE RadCounts(_)
RadCounts(e) ==
    IF e.op \in Arith /\ IsRadians(e)
      THEN {<<p[1], p[2] + 1>> : p \in RadCounts(e.a.a)}
    ELSE IF e.op \in Arith THEN RadCounts(e.a) \cup RadCounts(e.b)
    ELSE IF e.op \in {"toFloat", "cos", "sin"} THEN RadCounts(e.a)
    ELSE {<<e, 0>>}

\* the arguments of the trigonometric functions in e
RECURSIVE TrigArgs(_)
TrigArgs(e) ==
    IF e.op \in {"cos", "sin"} THEN {e.a} \cup TrigArgs(e.a)
    ELSE IF e.op \in Arith THEN TrigArgs(e.a) \cup TrigArgs(e.b)
    ELSE IF e.op = "toFloat" THEN TrigArgs(e.a)
    ELSE {}

C8_Hillshade ==
    (nb = "intro" /\ Bound("ee_object")) =>
        LET Azimuth == Radians(Image("0"))
            Zenith == Radians(Image("60"))
            Slope == g.slope_img
            Aspect == g.aspect_img
            Times(x, y) == Bin("multiply", x, y)
        IN  /\ g.ee_object =
                 Bin("add",
                     Times(Times(Un("cos", Bin("subtract", Azimuth, Aspect)),
                                 Un("sin", Slope)),
                           Un("sin", Zenith)),
                     Times(Un("cos", Zenith), Un("cos", Slope)))
            /\ UNION {RadCounts(t) : t \in TrigArgs(g.ee_object)} =
                 {<<Image("0"), 1>>, <<Image("60"), 1>>,
                  <<Bin("select", g.terrain, Lit("slope")), 1>>,
                  <<Bin("select", g.terrain, Lit("aspect")), 1>>}

C8_Witness ==
    /\ nb = "intro"
    /\ Bound("ee_object")
    /\ Cardinality(TrigArgs(g.ee_object)) = 3

(* C9: add_style returns its input point with one added property named
   'styleProperty' whose value is a dictionary with exactly the keys
   'pointSize' (computed from the point's 'capacitymw') and 'color' (the
   palette entry for the point's 'fuel1'); the raster loop styles the
   collection pp made by mapping add_style and reads the style from that same
   property name, while the vector loop uses the unstyled collection table. *)
\* the property reads and constants an expression is computed from
RECURSIVE Leaves(_)
Leaves(e) ==
    IF e.op \in {"get", "const", "var"} THEN {e}
    ELSE IF "b" \in DOMAIN e THEN Leaves(e.a) \cup Leaves(e.b)
    ELSE Leaves(e.a)

C9_StyleProperty ==
    (nb = "points" /\ Bound("pp")) =>
        LET point == g.pp.body.a
            style == g.pp.body.value
        IN  /\ g.pp.op = "map" /\ g.pp.a = FeatureCollection(g.table)
            /\ g.pp.body.op = "set"
            /\ point = MappedFeature
            /\ g.pp.body.key = "styleProperty"
            /\ style.op = "Dictionary"
            /\ DOMAIN style.d = {"pointSize", "color"}
            /\ Leaves(style.d.pointSize) =
                  {Bin("get", point, Lit("capacitymw")), Lit("10"), Lit("2")}
            /\ style.d.color =
                  Bin("get", [op |-> "Dictionary", d |-> HexPalette],
                      Bin("get", point, Lit("fuel1")))
            /\ \A l \in AllLayers :
                  IF IsVector(l)
                    THEN l.ee_object.op = "filter" /\ l.ee_object.a = g.table
                    ELSE /\ l.ee_object.op = "style"
                         /\ l.ee_object.kwargs.styleProperty = g.pp.body.key
                         /\ l.ee_object.a.op = "filter"
                         /\ l.ee_object.a.a = g.pp

C9_Witness ==
    /\ nb = "points"
    /\ outcome = "done"
    /\ \E l \in AllLayers : IsVector(l)
    /\ \E l \in AllLayers : ~IsVector(l)

====
